---- MODULE Spec2Model ----
(***************************************************************************)
(* Lexer and parser front end of bluePrint (src/src/lexer, src/src/parser). *)
(* Characters are their ASCII codes, so that a punctuation token is the     *)
(* character code itself, as in the C++ (int16_t tokens).  The cursor       *)
(* currentIndex is 0-based as in the source; source[i+1] is the character   *)
(* the C++ calls source[i].                                                 *)
(***************************************************************************)
EXTENDS Integers, Sequences, FiniteSets, TLC

VARIABLES
    source,          \* Lexer::source, as a sequence of character codes
    currentIndex,    \* Lexer::currentIndex
    currentToken,    \* Lexer::currentToken
    integerValue,    \* Lexer::integerValue (int, 32 bits)
    floatValue,      \* Lexer::floatValue, as a normalised decimal
    identifierName,  \* Lexer::identifierName
    op,              \* the Lexer member function called last
    ret,             \* the token that call returned
    pc,              \* position of the client: "api", or a place in main or the Parser
    parseTok,        \* Parser::parse's local currentToken
    classF,          \* locals of parseClassDefinition
    methodF,         \* locals of parseMethodImplementation
    stmtF,           \* locals of parseStatement
    result,          \* what the production that returned last returned
    exprF,           \* locals of parseBinaryOpRHS
    dispatched,      \* how many productions the loop of parse() has called
    lexerB,          \* a second Lexer object over the same source
    tokensA,         \* what getNextToken has returned on the first Lexer, in order
    tokensB          \* what getNextToken has returned on the second Lexer, in order

lexerVars == <<currentIndex, currentToken, integerValue, floatValue, identifierName>>

parserVars == <<parseTok, classF, methodF, stmtF, result, exprF, dispatched>>

twinVars == <<lexerB, tokensA, tokensB>>

vars == <<source, currentIndex, currentToken, integerValue, floatValue,
          identifierName, op, ret, pc, parseTok, classF, methodF, stmtF, result,
          exprF, dispatched, lexerB, tokensA, tokensB>>

---------------------------------------------------------------------------
(* Token codes, src/src/lexer/tokens.hpp *)
tok_eof == -1
tok_i32 == -10
tok_f32 == -11
tok_bool == -12
tok_char == -13
tok_void == -14
tok_true == -50
tok_false == -51
tok_integer_literal == -52
tok_float_literal == -53
tok_char_literal == -54
tok_identifier == -100
tok_class == -150
tok_if == -200
tok_else == -201
tok_while == -202
tok_public == -250

(* <cstdio> EOF, returned by Lexer::getchar as a (signed) char *)
EOF == -1

---------------------------------------------------------------------------
(* Text: one-character strings to ASCII codes *)
LowerCase == <<"a","b","c","d","e","f","g","h","i","j","k","l","m",
               "n","o","p","q","r","s","t","u","v","w","x","y","z">>
UpperCase == <<"A","B","C","D","E","F","G","H","I","J","K","L","M",
               "N","O","P","Q","R","S","T","U","V","W","X","Y","Z">>
Digits == <<"0","1","2","3","4","5","6","7","8","9">>
Punct == [c \in {" ", "\n", "\t", "\r", ".", "/", "*", ";", ":", "{", "}", "(", ")",
                 ",", "=", "+", "-", "<", ">", "!", "&", "|"} |->
            CASE c = " " -> 32 [] c = "\n" -> 10 [] c = "\t" -> 9 [] c = "\r" -> 13
              [] c = "." -> 46 [] c = "/" -> 47 [] c = "*" -> 42 [] c = ";" -> 59
              [] c = ":" -> 58 [] c = "{" -> 123 [] c = "}" -> 125 [] c = "(" -> 40
              [] c = ")" -> 41 [] c = "," -> 44 [] c = "=" -> 61 [] c = "+" -> 43
              [] c = "-" -> 45 [] c = "<" -> 60 [] c = ">" -> 62 [] c = "!" -> 33
              [] c = "&" -> 38 [] c = "|" -> 124]

Ord(c) ==
    IF \E i \in 1..26 : LowerCase[i] = c
    THEN 96 + (CHOOSE i \in 1..26 : LowerCase[i] = c)
    ELSE IF \E i \in 1..26 : UpperCase[i] = c
    THEN 64 + (CHOOSE i \in 1..26 : UpperCase[i] = c)
    ELSE IF \E i \in 1..10 : Digits[i] = c
    THEN 47 + (CHOOSE i \in 1..10 : Digits[i] = c)
    ELSE Punct[c]

(* The text written as a tuple of one-character strings, as character codes *)
Str(t) == [i \in 1..Len(t) |-> Ord(t[i])]

RECURSIVE Flatten(_)
Flatten(ss) == IF ss = <<>> THEN <<>> ELSE Head(ss) \o Flatten(Tail(ss))

(* <cctype> classification in the "C" locale; all false for EOF *)
isspace(c) == c \in {9, 10, 11, 12, 13, 32}
isdigit(c) == c \in 48..57
isalpha(c) == c \in (65..90) \cup (97..122)
isalnum(c) == isalpha(c) \/ isdigit(c)

---------------------------------------------------------------------------
(* Lexer::keywords, lexer.cpp:9-31 *)
keywords ==
    { [text |-> Str(<<"i","3","2">>), tok |-> tok_i32],
      [text |-> Str(<<"f","3","2">>), tok |-> tok_f32],
      [text |-> Str(<<"b","o","o","l">>), tok |-> tok_bool],
      [text |-> Str(<<"c","h","a","r">>), tok |-> tok_char],
      [text |-> Str(<<"v","o","i","d">>), tok |-> tok_void],
      [text |-> Str(<<"t","r","u","e">>), tok |-> tok_true],
      [text |-> Str(<<"f","a","l","s","e">>), tok |-> tok_false],
      [text |-> Str(<<"c","l","a","s","s">>), tok |-> tok_class],
      [text |-> Str(<<"i","f">>), tok |-> tok_if],
      [text |-> Str(<<"e","l","s","e">>), tok |-> tok_else],
      [text |-> Str(<<"w","h","i","l","e">>), tok |-> tok_while],
      [text |-> Str(<<"p","u","b","l","i","c">>), tok |-> tok_public] }

(* The one element of a singleton set.  Only({ e(x) : x \in {v} }) is
   LET x == v IN e(x) with v evaluated once, before e *)
Only(S) == CHOOSE x \in S : TRUE

(* Lexer::getchar: the character read and the cursor after the read *)
getchar(s, i) ==
    IF i >= Len(s) THEN [c |-> EOF, i |-> i]
    ELSE [c |-> s[i + 1], i |-> i + 1]

(* ungetCurrentToken moving the cursor back by two *)
ungetCurrentToken_Twice(i) == i - 2

(* Lexer::ungetCurrentToken: the cursor after the rewind *)
ungetCurrentToken(i) == i - 1

(* getKeywordToken without the lookup in keywords *)
getKeywordToken_NoLookup(identifier, oldName) ==
    [tok |-> tok_identifier, identifierName |-> identifier]

(* Lexer::getKeywordToken: the token, and identifierName after the call *)
getKeywordToken(identifier, oldName) ==
    IF \E k \in keywords : k.text = identifier
    THEN [tok |-> (CHOOSE k \in keywords : k.text = identifier).tok,
          identifierName |-> oldName]
    ELSE [tok |-> tok_identifier, identifierName |-> identifier]

(* lexer.cpp:45-48: lastChar = ' '; while (isspace(lastChar)) lastChar = getchar() *)
RECURSIVE SkipSpace(_, _)
SkipSpace(s, i) ==
    Only({ IF isspace(g.c) THEN SkipSpace(s, g.i) ELSE g : g \in {getchar(s, i)} })

(* lexer.cpp:56-59: do { identifierStr += lastChar; lastChar = getchar(); }
   while (isalnum(lastChar)) *)
RECURSIVE ScanIdentifier(_, _, _, _)
ScanIdentifier(s, i, identifierStr, lastChar) ==
    Only({ IF isalnum(g.c)
           THEN ScanIdentifier(s, g.i, Append(identifierStr, lastChar), g.c)
           ELSE [str |-> Append(identifierStr, lastChar), i |-> g.i] :
           g \in {getchar(s, i)} })

(* lexer.cpp:69-79: the digit-or-dot loop; err is the return at line 74 *)
RECURSIVE ScanNumber(_, _, _, _, _)
ScanNumber(s, i, numStr, isFloat, lastChar) ==
    IF lastChar = 46 /\ isFloat
    THEN [err |-> TRUE, numStr |-> numStr, isFloat |-> isFloat, i |-> i]
    ELSE Only({ IF isdigit(g.c) \/ g.c = 46
                THEN ScanNumber(s, g.i, Append(numStr, lastChar), f, g.c)
                ELSE [err |-> FALSE, numStr |-> Append(numStr, lastChar),
                      isFloat |-> f, i |-> g.i] :
                g \in {getchar(s, i)}, f \in {isFloat \/ lastChar = 46} })

---------------------------------------------------------------------------
(* strtoll(numStr, nullptr, 10) on a digit string.  A long long is kept as
   four 16-bit limbs, lowest first; a value above LLONG_MAX saturates. *)
LLONG_MAX == <<65535, 65535, 65535, 32767>>

MulAdd10(v, d) ==
    LET x1 == v[1] * 10 + d
        x2 == v[2] * 10 + (x1 \div 65536)
        x3 == v[3] * 10 + (x2 \div 65536)
        x4 == v[4] * 10 + (x3 \div 65536)
    IN  <<x1 % 65536, x2 % 65536, x3 % 65536, x4>>

(* acc * 10 + digit per character; once the value passes LLONG_MAX the
   result is LLONG_MAX whatever follows (ERANGE) *)
RECURSIVE strtollFrom(_, _, _)
strtollFrom(numStr, k, acc) ==
    IF k > Len(numStr) \/ ~isdigit(numStr[k]) THEN acc
    ELSE Only({ IF nxt[4] >= 32768 THEN LLONG_MAX
                ELSE strtollFrom(numStr, k + 1, nxt) :
                nxt \in {MulAdd10(acc, numStr[k] - 48)} })

strtoll(numStr) == strtollFrom(numStr, 1, <<0, 0, 0, 0>>)

(* The assignment this->integerValue = <long long>: integerValue is an int,
   so the low 32 bits are kept, read as two's complement (lexer.h:38) *)
ToInt(v) ==
    IF v[2] >= 32768 THEN (v[2] - 65536) * 65536 + v[1]
    ELSE v[2] * 65536 + v[1]

(* strtod(numStr, nullptr) on digits with at most one '.', as the decimal it
   denotes: integer part without leading zeros, fraction without trailing
   zeros.  The binary rounding to float is not represented. *)
RECURSIVE StripLeadingZeros(_)
StripLeadingZeros(ds) ==
    IF ds # <<>> /\ Head(ds) = 48 THEN StripLeadingZeros(Tail(ds)) ELSE ds

RECURSIVE StripTrailingZeros(_)
StripTrailingZeros(ds) ==
    IF ds # <<>> /\ ds[Len(ds)] = 48
    THEN StripTrailingZeros(SubSeq(ds, 1, Len(ds) - 1)) ELSE ds

strtod(numStr) ==
    LET dot == IF \E k \in 1..Len(numStr) : numStr[k] = 46
               THEN CHOOSE k \in 1..Len(numStr) : numStr[k] = 46
               ELSE Len(numStr) + 1
    IN  [ip |-> StripLeadingZeros(SubSeq(numStr, 1, dot - 1)),
         fp |-> StripTrailingZeros(SubSeq(numStr, dot + 1, Len(numStr)))]

---------------------------------------------------------------------------
(* Lexer::getNextToken, lexer.cpp:44-121.  L is the lexer's fields; the
   result is the fields after the call and the value returned. *)

(* lexer.cpp:97-99: do { lastChar = getchar(); } while (not EOF, '\n', '\r') *)
RECURSIVE SkipLine(_, _)
SkipLine(s, i) ==
    Only({ IF g.c # EOF /\ g.c # 10 /\ g.c # 13 THEN SkipLine(s, g.i) ELSE g :
           g \in {getchar(s, i)} })

(* lexer.cpp:105-114: the block comment loop; eof is the return at line 108 *)
RECURSIVE SkipBlock(_, _)
SkipBlock(s, i) ==
    Only({ IF g.c = EOF THEN [eof |-> TRUE, i |-> g.i]
           ELSE IF g.c = 42
           THEN Only({ IF h.c = 47 THEN [eof |-> FALSE, i |-> h.i]
                       ELSE SkipBlock(s, h.i) :
                       h \in {getchar(s, g.i)} })
           ELSE SkipBlock(s, g.i) :
           g \in {getchar(s, i)} })

(* lexer.cpp:54-64 *)
LexIdentifier(s, L, sk) ==
    Only({ Only({ [lx |-> [L EXCEPT !.currentIndex = ungetCurrentToken(sc.i),
                                    !.currentToken = kw.tok,
                                    !.identifierName = kw.identifierName],
                   ret |-> kw.tok] :
                  kw \in {getKeywordToken(sc.str, L.identifierName)} }) :
           sc \in {ScanIdentifier(s, sk.i, <<>>, sk.c)} })

(* LexNumber with the conversion made before the second '.' is looked at:
   the error return has already stored the digits read so far *)
LexNumber_ConvertsBeforeError(s, L, sk) ==
    Only({ IF sc.err
           THEN [lx |-> [L EXCEPT !.currentIndex = sc.i,
                                  !.integerValue = ToInt(strtoll(sc.numStr))],
                 ret |-> tok_eof]
           ELSE IF sc.isFloat
           THEN [lx |-> [L EXCEPT !.currentIndex = sc.i,
                                  !.floatValue = strtod(sc.numStr),
                                  !.currentToken = tok_float_literal],
                 ret |-> tok_float_literal]
           ELSE [lx |-> [L EXCEPT !.currentIndex = sc.i,
                                  !.integerValue = ToInt(strtoll(sc.numStr)),
                                  !.currentToken = tok_integer_literal],
                 ret |-> tok_integer_literal] :
           sc \in {ScanNumber(s, sk.i, <<>>, FALSE, sk.c)} })

(* LexNumber without the store of the converted integer: the payload of an
   integer literal is whatever integerValue held *)
LexNumber_NoIntegerStore(s, L, sk) ==
    Only({ IF sc.err
           THEN [lx |-> [L EXCEPT !.currentIndex = sc.i], ret |-> tok_eof]
           ELSE IF sc.isFloat
           THEN [lx |-> [L EXCEPT !.currentIndex = sc.i,
                                  !.floatValue = strtod(sc.numStr),
                                  !.currentToken = tok_float_literal],
                 ret |-> tok_float_literal]
           ELSE [lx |-> [L EXCEPT !.currentIndex = sc.i,
                                  !.currentToken = tok_integer_literal],
                 ret |-> tok_integer_literal] :
           sc \in {ScanNumber(s, sk.i, <<>>, FALSE, sk.c)} })

(* lexer.cpp:66-91 *)
LexNumber(s, L, sk) ==
    Only({ IF sc.err
           THEN [lx |-> [L EXCEPT !.currentIndex = sc.i], ret |-> tok_eof]
           ELSE IF sc.isFloat
           THEN [lx |-> [L EXCEPT !.currentIndex = sc.i,
                                  !.floatValue = strtod(sc.numStr),
                                  !.currentToken = tok_float_literal],
                 ret |-> tok_float_literal]
           ELSE [lx |-> [L EXCEPT !.currentIndex = sc.i,
                                  !.integerValue = ToInt(strtoll(sc.numStr)),
                                  !.currentToken = tok_integer_literal],
                 ret |-> tok_integer_literal] :
           sc \in {ScanNumber(s, sk.i, <<>>, FALSE, sk.c)} })

(* lexer.cpp:119-120: this->currentToken = lastChar; return lastChar *)
LexChar(L, i, lastChar) ==
    [lx |-> [L EXCEPT !.currentIndex = i, !.currentToken = lastChar],
     ret |-> lastChar]

RECURSIVE getNextToken(_, _)
getNextToken(s, L) ==
    Only({ IF sk.c = EOF
           THEN [lx |-> [L EXCEPT !.currentIndex = sk.i], ret |-> tok_eof]
           ELSE IF isalpha(sk.c) THEN LexIdentifier(s, L, sk)
           ELSE IF isdigit(sk.c) \/ sk.c = 46 THEN LexNumber(s, L, sk)
           ELSE IF sk.c = 47
           THEN Only({ IF g.c = 47
                       THEN Only({ IF ln.c # EOF
                                   THEN getNextToken(s, [L EXCEPT !.currentIndex = ln.i])
                                   ELSE LexChar(L, ln.i, ln.c) :
                                   ln \in {SkipLine(s, g.i)} })
                       ELSE IF g.c = 42
                       THEN Only({ IF bl.eof
                                   THEN [lx |-> [L EXCEPT !.currentIndex = bl.i],
                                         ret |-> tok_eof]
                                   ELSE getNextToken(s, [L EXCEPT !.currentIndex = bl.i]) :
                                   bl \in {SkipBlock(s, g.i)} })
                       ELSE LexChar(L, g.i, g.c) :
                       g \in {getchar(s, sk.i)} })
           ELSE LexChar(L, sk.i, sk.c) :
           sk \in {SkipSpace(s, L.currentIndex)} })

(* Lexer::getCurrentToken, lexer.cpp:127-129 *)
getCurrentToken(L) == L.currentToken

(* Lexer::getIntegerValue, lexer.cpp:131-133 *)
getIntegerValue(L) == L.integerValue

(* Lexer::getIdentifierName, lexer.cpp:147-149 *)
getIdentifierName(L) == L.identifierName

(* The Lexer object of the current state *)
Lx == [currentIndex |-> currentIndex, currentToken |-> currentToken,
       integerValue |-> integerValue, floatValue |-> floatValue,
       identifierName |-> identifierName]

SetLexer(L) ==
    /\ currentIndex' = L.currentIndex
    /\ currentToken' = L.currentToken
    /\ integerValue' = L.integerValue
    /\ floatValue' = L.floatValue
    /\ identifierName' = L.identifierName

---------------------------------------------------------------------------
(* Source texts.  The driver hands the whole file to the Lexer
   (main.cpp:48-51); the texts are built from fragments. *)
MaxFrags == 4
MaxDigits == 10

LexFragments ==
    { Str(<<"a">>), Str(<<"1">>), Str(<<".">>), Str(<<" ">>), Str(<<"\n">>),
      Str(<<";">>), Str(<<"/">>), Str(<<"*">>), Str(<<"/", "*">>), Str(<<"*", "/">>) }

SeqsUpTo(S, n) == UNION { [1..k -> S] : k \in 0..n }

FragSources == { Flatten(fs) : fs \in SeqsUpTo(LexFragments, MaxFrags) }

(* Keywords, keywords cut short by one character, keywords in upper case
   initial, each alone or next to a space, a letter, a digit or a ';' *)
Words ==
    { k.text : k \in keywords }
    \cup { SubSeq(k.text, 1, Len(k.text) - 1) : k \in keywords }
    \cup { [k.text EXCEPT ![1] = @ - 32] : k \in keywords }

WordSources ==
    { pre \o w \o post :
        pre \in {<<>>, Str(<<" ">>)}, w \in Words,
        post \in {<<>>, Str(<<";">>), Str(<<" ">>), Str(<<"1">>), Str(<<"a">>)} }

DigitSources ==
    { ds \o post : ds \in SeqsUpTo({48, 51}, MaxDigits),
                   post \in {<<>>, Str(<<";">>)} }

Sources == FragSources \cup WordSources \cup DigitSources

(* integerValue and floatValue have no initialiser (lexer.h:38-39): a fresh
   Lexer holds indeterminate values in them *)
UninitInts == {0, -7}
UninitFloats == { [ip |-> <<>>, fp |-> <<>>], [ip |-> <<49>>, fp |-> <<53>>] }

(* The locals of a production that is not running, and the empty result *)
NoClassF == [className |-> <<>>, methodImpls |-> <<>>]
NoMethodF ==
    [accessModifier |-> "none", returnType |-> "none", methodName |-> <<>>,
     paramType |-> "none", params |-> <<>>, body |-> <<>>]
NoStmtF == [currentToken |-> 0, varType |-> "none", varName |-> <<>>]
NoExprF == [inParen |-> FALSE, exprPrecedence |-> 0, lhs |-> [kind |-> "none"],
            op |-> "", rhs |-> [kind |-> "none"]]
nullptr == [kind |-> "nullptr"]

(* No second Lexer has been constructed *)
NoTwin ==
    /\ lexerB = [kind |-> "none"]
    /\ tokensA = <<>>
    /\ tokensB = <<>>

ParserIdle ==
    /\ parseTok = 0
    /\ classF = NoClassF
    /\ methodF = NoMethodF
    /\ stmtF = NoStmtF
    /\ result = [kind |-> "none"]
    /\ exprF = NoExprF
    /\ dispatched = 0

(* Lexer::Lexer, lexer.cpp:33-35 and the member initialisers of lexer.h *)
LexerInit(S) ==
    /\ source \in S
    /\ currentIndex = 0
    /\ currentToken = 0
    /\ integerValue \in UninitInts
    /\ floatValue \in UninitFloats
    /\ identifierName = <<>>
    /\ op = "Lexer"
    /\ ret = 0

---------------------------------------------------------------------------
(* The Lexer driven through its public interface by any client *)
Init == LexerInit(Sources) /\ pc = "api" /\ ParserIdle /\ NoTwin

GetNextTokenCall ==
    /\ pc = "api"
    /\ \E r \in {getNextToken(source, Lx)} :
            SetLexer(r.lx) /\ ret' = r.ret
    /\ op' = "getNextToken"
    /\ UNCHANGED <<source, pc>>
    /\ UNCHANGED parserVars
    /\ UNCHANGED twinVars

GetCurrentTokenCall ==
    /\ pc = "api"
    /\ ret' = getCurrentToken(Lx)
    /\ op' = "getCurrentToken"
    /\ UNCHANGED <<source, pc>>
    /\ UNCHANGED lexerVars
    /\ UNCHANGED parserVars
    /\ UNCHANGED twinVars

Next == GetNextTokenCall \/ GetCurrentTokenCall

Spec == Init /\ [][Next]_vars

---------------------------------------------------------------------------
(* The token loop of main, main.cpp:55-61 *)
MaxMainFrags == 3

MainFragments ==
    { Str(<<"a">>), Str(<<"i", "f">>), Str(<<"1">>), Str(<<" ">>),
      Str(<<";">>), Str(<<"/">>), Str(<<"*">>) }

MainSources == { Flatten(fs) : fs \in SeqsUpTo(MainFragments, MaxMainFrags) }

InitMain == LexerInit(MainSources) /\ pc = "main_call" /\ ParserIdle /\ NoTwin

(* main.cpp:56: int16_t token = lexer.getNextToken() *)
MainGetNextToken ==
    /\ pc = "main_call"
    /\ \E r \in {getNextToken(source, Lx)} :
            SetLexer(r.lx) /\ ret' = r.ret
    /\ op' = "getNextToken"
    /\ pc' = "main_test"
    /\ UNCHANGED source
    /\ UNCHANGED parserVars
    /\ UNCHANGED twinVars

(* main.cpp:57-60: if (token == tok_eof) break; else print and loop *)
MainTest ==
    /\ pc = "main_test"
    /\ pc' = IF ret = tok_eof THEN "main_break" ELSE "main_call"
    /\ UNCHANGED <<source, op, ret>>
    /\ UNCHANGED lexerVars
    /\ UNCHANGED parserVars
    /\ UNCHANGED twinVars

NextMain == MainGetNextToken \/ MainTest

SpecMain == InitMain /\ [][NextMain]_vars

(* main is sequential code: it keeps executing while it has a next step *)
FairMain == SpecMain /\ WF_vars(NextMain)

---------------------------------------------------------------------------
(* Two Lexer objects over the same text, as main builds them one after the
   other (main.cpp:51 and main.cpp:63), each driven by getNextToken only.
   The second may be constructed after the first has lexed any number of
   tokens. *)
MaxCalls == 3

(* A token as a client sees it: the value returned, with the identifier name
   of an identifier and the integer payload of an integer literal *)
Seen(r) ==
    [tok |-> r.ret,
     name |-> IF r.ret = tok_identifier THEN getIdentifierName(r.lx) ELSE <<>>,
     value |-> IF r.ret = tok_integer_literal THEN getIntegerValue(r.lx) ELSE 0]

InitTwin ==
    /\ LexerInit(MainSources)
    /\ pc = "twin"
    /\ ParserIdle
    /\ NoTwin

(* Lexer::Lexer for the second object, lexer.cpp:33-35 *)
TwinConstruct ==
    /\ pc = "twin"
    /\ lexerB = [kind |-> "none"]
    /\ \E iv \in UninitInts, fv \in UninitFloats :
        lexerB' = [currentIndex |-> 0, currentToken |-> 0, integerValue |-> iv,
                   floatValue |-> fv, identifierName |-> <<>>]
    /\ UNCHANGED <<source, op, ret, pc, tokensA, tokensB>>
    /\ UNCHANGED lexerVars
    /\ UNCHANGED parserVars

(* getNextToken on the first object *)
TwinCallA ==
    /\ pc = "twin"
    /\ Len(tokensA) < MaxCalls
    /\ \E r \in {getNextToken(source, Lx)} :
        /\ SetLexer(r.lx)
        /\ ret' = r.ret
        /\ tokensA' = Append(tokensA, Seen(r))
    /\ op' = "getNextToken"
    /\ UNCHANGED <<source, pc, lexerB, tokensB>>
    /\ UNCHANGED parserVars

(* getNextToken on the second object *)
TwinCallB ==
    /\ pc = "twin"
    /\ lexerB # [kind |-> "none"]
    /\ Len(tokensB) < MaxCalls
    /\ \E r \in {getNextToken(source, lexerB)} :
        /\ lexerB' = r.lx
        /\ tokensB' = Append(tokensB, Seen(r))
    /\ UNCHANGED <<source, op, ret, pc, tokensA>>
    /\ UNCHANGED lexerVars
    /\ UNCHANGED parserVars

NextTwin == TwinConstruct \/ TwinCallA \/ TwinCallB

SpecTwin == InitTwin /\ [][NextTwin]_vars

---------------------------------------------------------------------------
(* The Parser, src/src/parser.  One action is the code from one token fetch
   up to the next one; a production that fails returns nullptr to its
   caller, which returns nullptr in turn, up to the loop of parse(). *)

(* TokenUtils::isPrimitiveTypeToken, tokens.hpp:44-51 *)
isPrimitiveTypeToken(token) == token \in {tok_i32, tok_f32, tok_bool, tok_char, tok_void}

(* TokenUtils::getAccessModifierTokens, tokens.hpp:106-108 *)
getAccessModifierTokens == {tok_public}

(* ParserUtils::getAccessModifierFromToken, parser.hpp:58-65 *)
getAccessModifierFromToken(token) == IF token = tok_public THEN "PUBLIC" ELSE "nullptr"

(* ParserUtils::getPrimitiveTypeFromToken, parser.hpp:38-53 *)
getPrimitiveTypeFromToken(token) ==
    CASE token = tok_i32 -> "INT32"
      [] token = tok_f32 -> "FLOAT32"
      [] token = tok_bool -> "BOOL"
      [] token = tok_char -> "CHAR"
      [] token = tok_void -> "VOID"
      [] OTHER -> "nullptr"

(* The call lexer.getNextToken() inside a parser step, with its result r *)
Fetch(r) ==
    /\ SetLexer(r.lx)
    /\ ret' = r.ret
    /\ op' = "getNextToken"
    /\ UNCHANGED source
    /\ UNCHANGED twinVars

NoFetch == UNCHANGED <<source, op, ret>> /\ UNCHANGED lexerVars /\ UNCHANGED twinVars

(* return nullptr from parseStatement, parseMethodImplementation and
   parseClassDefinition, whichever are running, back to parser.cpp:40 *)
ClassFails ==
    /\ result' = nullptr
    /\ classF' = NoClassF
    /\ methodF' = NoMethodF
    /\ stmtF' = NoStmtF
    /\ pc' = "parse_advance"
    /\ UNCHANGED <<parseTok, exprF, dispatched>>

(* The step stays inside parseClassDefinition or a production it called *)
ClassGoes(label, cf, mf, sf) ==
    /\ pc' = label
    /\ classF' = cf
    /\ methodF' = mf
    /\ stmtF' = sf
    /\ UNCHANGED <<parseTok, result, exprF, dispatched>>

(* parser.cpp:11-13 *)
ParseStart ==
    /\ pc = "parse_start"
    /\ \E r \in {getNextToken(source, Lx)} :
        /\ Fetch(r)
        /\ parseTok' = getCurrentToken(r.lx)
    /\ pc' = "parse_loop"
    /\ UNCHANGED <<classF, methodF, stmtF, result, exprF, dispatched>>

(* The calls counted in dispatched; counting stops at MaxDispatched *)
MaxDispatched == 4

Called == dispatched' = IF dispatched < MaxDispatched THEN dispatched + 1 ELSE dispatched

(* parser.cpp:14-45: the loop test and the switch, up to the call of a
   production; classParser.cpp:13-16 for the class keyword *)
ParseDispatch ==
    /\ pc = "parse_loop"
    /\ NoFetch
    /\ UNCHANGED <<parseTok, classF, methodF, stmtF, exprF>>
    /\ IF parseTok = tok_eof
       THEN pc' = "parse_done" /\ UNCHANGED <<result, dispatched>>
       ELSE IF parseTok \in {tok_integer_literal, tok_float_literal, tok_true,
                             tok_false, tok_char_literal, tok_identifier}
       THEN pc' = "parse_leaf" /\ Called /\ UNCHANGED result
       ELSE IF parseTok = tok_class
       THEN IF getCurrentToken(Lx) # tok_class
            THEN pc' = "parse_advance" /\ Called /\ result' = nullptr
            ELSE pc' = "class_name" /\ Called /\ UNCHANGED result
       ELSE pc' = "parse_advance" /\ UNCHANGED <<result, dispatched>>

(* valueParsers.cpp:27-55: parseIntegerValue, parseFloatValue,
   parseBoolValue, parseCharValue, parseIdentifier.  boolValue and charValue
   are never assigned (lexer.h:40-41): reading them gives any value. *)
ParseLeaf ==
    /\ pc = "parse_leaf"
    /\ \E b \in BOOLEAN, c \in {0, 97} :
        result' =
            CASE parseTok = tok_integer_literal ->
                    [kind |-> "Integer", value |-> getIntegerValue(Lx)]
              [] parseTok = tok_float_literal ->
                    [kind |-> "Float", value |-> floatValue]
              [] parseTok \in {tok_true, tok_false} ->
                    [kind |-> "Bool", value |-> b]
              [] parseTok = tok_char_literal ->
                    [kind |-> "Char", value |-> c]
              [] OTHER ->
                    [kind |-> "Identifier", name |-> getIdentifierName(Lx)]
    /\ \E r \in {getNextToken(source, Lx)} : Fetch(r)
    /\ pc' = "parse_advance"
    /\ UNCHANGED <<parseTok, classF, methodF, stmtF, exprF, dispatched>>

(* parser.cpp:47 *)
ParseAdvance ==
    /\ pc = "parse_advance"
    /\ \E r \in {getNextToken(source, Lx)} :
        /\ Fetch(r)
        /\ parseTok' = r.ret
    /\ pc' = "parse_loop"
    /\ UNCHANGED <<classF, methodF, stmtF, result, exprF, dispatched>>

(* classParser.cpp:19-24 *)
ClassName ==
    /\ pc = "class_name"
    /\ \E r \in {getNextToken(source, Lx)} :
        /\ Fetch(r)
        /\ IF r.ret # tok_identifier THEN ClassFails
           ELSE ClassGoes("class_colon",
                          [NoClassF EXCEPT !.className = getIdentifierName(r.lx)],
                          methodF, stmtF)

(* classParser.cpp:27-31 *)
ClassColon ==
    /\ pc = "class_colon"
    /\ \E r \in {getNextToken(source, Lx)} :
        /\ Fetch(r)
        /\ IF r.ret # 58 THEN ClassFails
           ELSE ClassGoes("class_base", classF, methodF, stmtF)

(* classParser.cpp:34-40 *)
ClassBase ==
    /\ pc = "class_base"
    /\ \E r \in {getNextToken(source, Lx)} :
        /\ Fetch(r)
        /\ IF r.ret # tok_identifier
              /\ getIdentifierName(r.lx) # Str(<<"A","p","p","l","i","c","a","t","i","o","n">>)
           THEN ClassFails
           ELSE ClassGoes("class_lbrace", classF, methodF, stmtF)

(* classParser.cpp:43-47 *)
ClassLBrace ==
    /\ pc = "class_lbrace"
    /\ \E r \in {getNextToken(source, Lx)} :
        /\ Fetch(r)
        /\ IF r.ret # 123 THEN ClassFails
           ELSE ClassGoes("class_first", classF, methodF, stmtF)

(* classParser.cpp:50 *)
ClassFirst ==
    /\ pc = "class_first"
    /\ \E r \in {getNextToken(source, Lx)} : Fetch(r)
    /\ ClassGoes("class_body", classF, methodF, stmtF)

(* classParser.cpp:53-60, and the entry of parseMethodImplementation,
   classParser.cpp:80-87 *)
ClassBody ==
    /\ pc = "class_body"
    /\ NoFetch
    /\ IF getCurrentToken(Lx) = 125
       THEN ClassGoes("class_close", classF, methodF, stmtF)
       ELSE IF getCurrentToken(Lx) \notin getAccessModifierTokens
       THEN ClassFails
       ELSE ClassGoes("method_rettype", classF,
                      [NoMethodF EXCEPT
                          !.accessModifier = getAccessModifierFromToken(getCurrentToken(Lx))],
                      stmtF)

(* classParser.cpp:72-74 *)
ClassClose ==
    /\ pc = "class_close"
    /\ \E r \in {getNextToken(source, Lx)} : Fetch(r)
    /\ result' = [kind |-> "Class", name |-> classF.className,
                  methodImpls |-> classF.methodImpls,
                  blueprintNames |-> <<Str(<<"A","p","p","l","i","c","a","t","i","o","n">>)>>]
    /\ classF' = NoClassF
    /\ pc' = "parse_advance"
    /\ UNCHANGED <<parseTok, methodF, stmtF, exprF, dispatched>>

(* classParser.cpp:90-99 *)
MethodRetType ==
    /\ pc = "method_rettype"
    /\ \E r \in {getNextToken(source, Lx)} :
        /\ Fetch(r)
        /\ IF r.ret # tok_void THEN ClassFails
           ELSE ClassGoes("method_name", classF,
                          [methodF EXCEPT !.returnType = "VOID"], stmtF)

(* classParser.cpp:102-107 *)
MethodName ==
    /\ pc = "method_name"
    /\ \E r \in {getNextToken(source, Lx)} :
        /\ Fetch(r)
        /\ IF r.ret # tok_identifier THEN ClassFails
           ELSE ClassGoes("method_lparen", classF,
                          [methodF EXCEPT !.methodName = getIdentifierName(r.lx)],
                          stmtF)

(* classParser.cpp:110-114 *)
MethodLParen ==
    /\ pc = "method_lparen"
    /\ \E r \in {getNextToken(source, Lx)} :
        /\ Fetch(r)
        /\ IF r.ret # 40 THEN ClassFails
           ELSE ClassGoes("method_param", classF, methodF, stmtF)

(* classParser.cpp:116 or 145, the fetch of a parameter type or ')', then
   the loop test and the type check, classParser.cpp:118-123 *)
MethodParam ==
    /\ pc = "method_param"
    /\ \E r \in {getNextToken(source, Lx)} :
        /\ Fetch(r)
        /\ IF r.ret = 41
           THEN ClassGoes("method_lbrace", classF, methodF, stmtF)
           ELSE IF ~isPrimitiveTypeToken(r.ret) THEN ClassFails
           ELSE ClassGoes("method_param_name", classF,
                          [methodF EXCEPT !.paramType = getPrimitiveTypeFromToken(r.ret)],
                          stmtF)

(* classParser.cpp:125-133 *)
MethodParamName ==
    /\ pc = "method_param_name"
    /\ \E r \in {getNextToken(source, Lx)} :
        /\ Fetch(r)
        /\ IF r.ret # tok_identifier THEN ClassFails
           ELSE ClassGoes("method_param_sep", classF,
                          [methodF EXCEPT
                              !.params = Append(@, [type |-> methodF.paramType,
                                                    name |-> getIdentifierName(r.lx)]),
                              !.paramType = "none"],
                          stmtF)

(* classParser.cpp:135-143 *)
MethodParamSep ==
    /\ pc = "method_param_sep"
    /\ \E r \in {getNextToken(source, Lx)} :
        /\ Fetch(r)
        /\ IF r.ret = 41
           THEN ClassGoes("method_lbrace", classF, methodF, stmtF)
           ELSE IF r.ret # 44 THEN ClassFails
           ELSE ClassGoes("method_param", classF, methodF, stmtF)

(* classParser.cpp:149-153 *)
MethodLBrace ==
    /\ pc = "method_lbrace"
    /\ \E r \in {getNextToken(source, Lx)} :
        /\ Fetch(r)
        /\ IF r.ret # 123 THEN ClassFails
           ELSE ClassGoes("method_body", classF, methodF, stmtF)

(* classParser.cpp:156-162 and 170-173, and the entry of parseStatement,
   statementParser.cpp:10-17 and 45-47 *)
MethodBody ==
    /\ pc = "method_body"
    /\ \E r \in {getNextToken(source, Lx)} :
        /\ Fetch(r)
        /\ IF r.ret = 125
           THEN ClassGoes("method_end", classF, methodF, stmtF)
           ELSE IF getCurrentToken(r.lx) \notin {tok_i32, tok_f32, tok_bool, tok_char}
           THEN ClassFails
           ELSE ClassGoes("stmt_name", classF, methodF,
                          [NoStmtF EXCEPT
                              !.currentToken = getCurrentToken(r.lx),
                              !.varType = getPrimitiveTypeFromToken(getCurrentToken(r.lx))])

(* statementParser.cpp:20-26 *)
StmtName ==
    /\ pc = "stmt_name"
    /\ \E r \in {getNextToken(source, Lx)} :
        /\ Fetch(r)
        /\ IF r.ret # tok_identifier THEN ClassFails
           ELSE ClassGoes("stmt_eq", classF, methodF,
                          [stmtF EXCEPT !.currentToken = r.ret,
                                        !.varName = getIdentifierName(r.lx)])

(* statementParser.cpp:29-33 *)
StmtEq ==
    /\ pc = "stmt_eq"
    /\ \E r \in {getNextToken(source, Lx)} :
        /\ Fetch(r)
        /\ IF r.ret # 61 THEN ClassFails
           ELSE ClassGoes("stmt_skip_test", classF, methodF,
                          [stmtF EXCEPT !.currentToken = r.ret])

(* statementParser.cpp:36, the test of while (currentToken != ';'), and
   39-43 with classParser.cpp:163-166 when the loop ends *)
StmtSkipTest ==
    /\ pc = "stmt_skip_test"
    /\ NoFetch
    /\ IF stmtF.currentToken # 59
       THEN ClassGoes("stmt_skip_fetch", classF, methodF, stmtF)
       ELSE /\ result' = [kind |-> "VarDecl", type |-> stmtF.varType,
                          name |-> stmtF.varName,
                          initializer |-> [kind |-> "Integer", value |-> 0]]
            /\ methodF' = [methodF EXCEPT !.body = Append(@, result')]
            /\ stmtF' = NoStmtF
            /\ pc' = "method_body"
            /\ UNCHANGED <<parseTok, classF, exprF, dispatched>>

(* statementParser.cpp:37 *)
StmtSkipFetch ==
    /\ pc = "stmt_skip_fetch"
    /\ \E r \in {getNextToken(source, Lx)} :
        /\ Fetch(r)
        /\ ClassGoes("stmt_skip_test", classF, methodF,
                     [stmtF EXCEPT !.currentToken = r.ret])

(* MethodEnd with the access modifier recorded in the node *)
MethodEnd_RecordsModifier ==
    /\ pc = "method_end"
    /\ \E r \in {getNextToken(source, Lx)} : Fetch(r)
    /\ result' = [kind |-> "MethodImpl", accessModifiers |-> <<methodF.accessModifier>>,
                  returnType |-> methodF.returnType, name |-> methodF.methodName,
                  params |-> methodF.params, body |-> methodF.body]
    /\ classF' = [classF EXCEPT !.methodImpls = Append(@, result')]
    /\ methodF' = NoMethodF
    /\ pc' = "class_body"
    /\ UNCHANGED <<parseTok, stmtF, exprF, dispatched>>

(* MethodEnd with the method put in front of the list instead of behind *)
MethodEnd_PushFront ==
    /\ pc = "method_end"
    /\ \E r \in {getNextToken(source, Lx)} : Fetch(r)
    /\ result' = [kind |-> "MethodImpl", accessModifiers |-> <<>>,
                  returnType |-> methodF.returnType, name |-> methodF.methodName,
                  params |-> methodF.params, body |-> methodF.body]
    /\ classF' = [classF EXCEPT !.methodImpls = <<result'>> \o @]
    /\ methodF' = NoMethodF
    /\ pc' = "class_body"
    /\ UNCHANGED <<parseTok, stmtF, exprF, dispatched>>

(* classParser.cpp:174-182, and classParser.cpp:61-68 in the caller *)
MethodEnd ==
    /\ pc = "method_end"
    /\ \E r \in {getNextToken(source, Lx)} : Fetch(r)
    /\ result' = [kind |-> "MethodImpl", accessModifiers |-> <<>>,
                  returnType |-> methodF.returnType, name |-> methodF.methodName,
                  params |-> methodF.params, body |-> methodF.body]
    /\ classF' = [classF EXCEPT !.methodImpls = Append(@, result')]
    /\ methodF' = NoMethodF
    /\ pc' = "class_body"
    /\ UNCHANGED <<parseTok, stmtF, exprF, dispatched>>

(* Source texts for the parser: a class definition cut off after any number
   of its tokens, followed by at most MaxParseTail further fragments *)
MaxParseTail == 1

ClassText ==
    << Str(<<"c","l","a","s","s"," ">>), Str(<<"a"," ">>), Str(<<":"," ">>),
       Str(<<"A","p","p","l","i","c","a","t","i","o","n"," ">>), Str(<<"{"," ">>),
       Str(<<"p","u","b","l","i","c"," ">>), Str(<<"v","o","i","d"," ">>),
       Str(<<"m"," ">>), Str(<<"("," ">>), Str(<<"i","3","2"," ">>), Str(<<"x"," ">>),
       Str(<<","," ">>), Str(<<"f","3","2"," ">>), Str(<<"y"," ">>), Str(<<")"," ">>),
       Str(<<"{"," ">>), Str(<<"i","3","2"," ">>), Str(<<"z"," ">>), Str(<<"="," ">>),
       Str(<<"1"," ">>), Str(<<";"," ">>), Str(<<"}"," ">>), Str(<<"}"," ">>) >>

ParseTailFragments ==
    { Str(<<"a">>), Str(<<"1">>), Str(<<"t","r","u","e"," ">>), Str(<<"1",".","5"," ">>) }

ParseSources ==
    { Flatten(SubSeq(ClassText, 1, n)) \o Flatten(tail) :
        n \in 0..Len(ClassText), tail \in SeqsUpTo(ParseTailFragments, MaxParseTail) }

(* main.cpp:51 and 66-67: a fresh Lexer is handed to the Parser *)
InitParse ==
    /\ LexerInit(ParseSources)
    /\ pc = "parse_start"
    /\ ParserIdle
    /\ NoTwin

NextParse ==
    \/ ParseStart \/ ParseDispatch \/ ParseLeaf \/ ParseAdvance
    \/ ClassName \/ ClassColon \/ ClassBase \/ ClassLBrace \/ ClassFirst
    \/ ClassBody \/ ClassClose
    \/ MethodRetType \/ MethodName \/ MethodLParen \/ MethodParam
    \/ MethodParamName \/ MethodParamSep \/ MethodLBrace \/ MethodBody
    \/ MethodEnd
    \/ StmtName \/ StmtEq \/ StmtSkipTest \/ StmtSkipFetch

SpecParse == InitParse /\ [][NextParse]_vars

(* parse() is sequential code: it keeps executing while it has a next step *)
FairParse == SpecParse /\ WF_vars(NextParse)

---------------------------------------------------------------------------
(* Class definitions as source texts.  A shape gives, for each method, the
   number of its parameters and of its declarations; the words (types,
   names, initializers) are picked by position, so that neighbouring
   parameters, declarations and methods differ. *)
MaxMethods == 2
MaxParams == 2
MaxDecls == 2

Variants == {0, 1}

TypeWords == << Str(<<"i","3","2">>), Str(<<"f","3","2">>), Str(<<"b","o","o","l">>), Str(<<"c","h","a","r">>) >>

NameWords == << Str(<<"x">>), Str(<<"y","z">>), Str(<<"w","1">>) >>

ClassNames == << Str(<<"F","o","o">>), Str(<<"a">>) >>

(* initializers, as token sequences *)
InitWords ==
    << <<Str(<<"0">>)>>, <<Str(<<"a">>)>>, <<Str(<<"1",".","5">>)>>, <<Str(<<"1">>), Str(<<"+">>), Str(<<"2","3">>)>>, <<Str(<<"t","r","u","e">>)>> >>

Pick(words, n) == words[(n % Len(words)) + 1]

(* a method has no parameter and no declaration, or one of the two counts
   is the largest and the other is one or the largest *)
MethodShapes ==
    { [params |-> 0, decls |-> 0], [params |-> 1, decls |-> MaxDecls],
      [params |-> MaxParams, decls |-> 1], [params |-> MaxParams, decls |-> MaxDecls] }

Shapes == [ v : Variants, methods : SeqsUpTo(MethodShapes, MaxMethods) ]

(* the i-th parameter and the i-th declaration of the j-th method *)
ParamType(v, j, i) == Pick(TypeWords, v + j + i)

ParamName(v, j, i) == Pick(NameWords, v + 2 * j + i)

DeclType(v, j, i) == Pick(TypeWords, v + j + 2 * i)

DeclName(v, j, i) == Pick(NameWords, v + j + i + 1)

MethodWord(v, j) == Pick(NameWords, v + j)

ParamTokens(v, j, n) ==
    Flatten([i \in 1..n |->
        (IF i > 1 THEN <<Str(<<",">>)>> ELSE <<>>) \o <<ParamType(v, j, i), ParamName(v, j, i)>>])

DeclTokens(v, j, n) ==
    Flatten([i \in 1..n |->
        <<DeclType(v, j, i), DeclName(v, j, i), Str(<<"=">>)>> \o Pick(InitWords, v + j + i)
        \o <<Str(<<";">>)>>])

MethodTokens(v, j, m) ==
    <<Str(<<"p","u","b","l","i","c">>), Str(<<"v","o","i","d">>), MethodWord(v, j), Str(<<"(">>)>> \o ParamTokens(v, j, m.params)
    \o <<Str(<<")">>), Str(<<"{">>)>> \o DeclTokens(v, j, m.decls) \o <<Str(<<"}">>)>>

ClassTokens(d, base) ==
    <<Str(<<"c","l","a","s","s">>), Pick(ClassNames, d.v), Str(<<":">>), base, Str(<<"{">>)>>
    \o Flatten([j \in 1..Len(d.methods) |-> MethodTokens(d.v, j, d.methods[j])])
    \o <<Str(<<"}">>)>>

(* the tokens written one after another, each followed by white space; the
   odd variant puts a newline after every token *)
Spaced(tokens, v) == Flatten([k \in 1..Len(tokens) |-> Append(tokens[k], IF v = 0 THEN 32 ELSE 10)])

(* ... and the same without white space after the last token *)
Text(tokens, v) ==
    IF v = 0 \/ tokens = <<>> THEN Spaced(tokens, v)
    ELSE SubSeq(Spaced(tokens, v), 1, Len(Spaced(tokens, v)) - 1)

WellFormed(d) == Text(ClassTokens(d, Str(<<"A","p","p","l","i","c","a","t","i","o","n">>)), d.v)

WellFormedSources == { WellFormed(d) : d \in Shapes }

(* The nodes a class definition of shape d stands for (ast constructors
   called in classParser.cpp:74, 133, 176-182 and statementParser.cpp:39-43) *)
TypeOf(word) ==
    CASE word = Str(<<"i","3","2">>) -> "INT32"
      [] word = Str(<<"f","3","2">>) -> "FLOAT32"
      [] word = Str(<<"b","o","o","l">>) -> "BOOL"
      [] word = Str(<<"c","h","a","r">>) -> "CHAR"

VarDeclNode(v, j, i) ==
    [kind |-> "VarDecl", type |-> TypeOf(DeclType(v, j, i)), name |-> DeclName(v, j, i),
     initializer |-> [kind |-> "Integer", value |-> 0]]

MethodNode(v, j, m) ==
    [kind |-> "MethodImpl", accessModifiers |-> <<>>, returnType |-> "VOID",
     name |-> MethodWord(v, j),
     params |-> [i \in 1..m.params |->
                    [type |-> TypeOf(ParamType(v, j, i)), name |-> ParamName(v, j, i)]],
     body |-> [i \in 1..m.decls |-> VarDeclNode(v, j, i)]]

ClassNode(d) ==
    [kind |-> "Class", name |-> Pick(ClassNames, d.v),
     methodImpls |-> [j \in 1..Len(d.methods) |-> MethodNode(d.v, j, d.methods[j])],
     blueprintNames |-> <<Str(<<"A","p","p","l","i","c","a","t","i","o","n">>)>>]

(* Class definitions with one token left out: the class name, the ':', the
   base name, a brace, or any token of a method outside an initializer *)
DeviationShapes ==
    { d \in Shapes : d.methods \in {<<>>, <<[params |-> MaxParams, decls |-> 1]>>} }

InInitializer(tokens, k) ==
    \E a \in 1..(k - 1) : tokens[a] = Str(<<"=">>) /\ \A b \in (a + 1)..k : tokens[b] # Str(<<";">>)

Dropped(tokens, k) == SubSeq(tokens, 1, k - 1) \o SubSeq(tokens, k + 1, Len(tokens))

Deviations(d) ==
    { Text(Dropped(ClassTokens(d, Str(<<"A","p","p","l","i","c","a","t","i","o","n">>)), k), d.v) :
        k \in { n \in 2..Len(ClassTokens(d, Str(<<"A","p","p","l","i","c","a","t","i","o","n">>))) :
                    ~InInitializer(ClassTokens(d, Str(<<"A","p","p","l","i","c","a","t","i","o","n">>)), n) } }

DeviatingSources == UNION { Deviations(d) : d \in DeviationShapes }

(* Class definitions whose base name is not Application: another
   identifier, a number, a keyword; and one whose class name is Application *)
OtherBases == { Str(<<"B","a","s","e">>), Str(<<"a","p","p","l","i","c","a","t","i","o","n">>), Str(<<"7">>), Str(<<"i","3","2">>) }

OtherBaseSources ==
    { Text(ClassTokens(d, base), d.v) : d \in DeviationShapes, base \in OtherBases }
    \cup { Text(<<Str(<<"c","l","a","s","s">>), Str(<<"A","p","p","l","i","c","a","t","i","o","n">>), Str(<<":">>), base, Str(<<"{">>), Str(<<"}">>)>>, 0) : base \in OtherBases }

(* Sources made of top-level items only: up to MaxTopLevel literals or
   identifiers, or as many copies of one class definition *)
MaxTopLevel == 3

LeafWords == { Str(<<"a">>), Str(<<"1">>), Str(<<"t","r","u","e">>), Str(<<"f","a","l","s","e">>), Str(<<"1",".","5">>) }

LeafRun(ts) == Spaced(ts, 0)

ClassRun(d, k) == Spaced(Flatten([i \in 1..k |-> ClassTokens(d, Str(<<"A","p","p","l","i","c","a","t","i","o","n">>))]), d.v)

TopLevelSources ==
    { LeafRun(ts) : ts \in SeqsUpTo(LeafWords, MaxTopLevel) }
    \cup { ClassRun(d, k) : d \in DeviationShapes, k \in 1..MaxTopLevel }

(* Class definitions of one method with MaxDecls declarations whose ';' is
   written directly behind the initializer *)
TightShapes ==
    { d \in Shapes : Len(d.methods) = 1 /\ d.methods[1].decls = MaxDecls }

TightText(tokens, v) ==
    Flatten([k \in 1..Len(tokens) |->
        IF k < Len(tokens) /\ tokens[k + 1] = Str(<<";">>)
        THEN tokens[k]
        ELSE Append(tokens[k], IF v = 0 THEN 32 ELSE 10)])

Tight(d) == Only({ TightText(tokens, d.v) : tokens \in {ClassTokens(d, Str(<<"A","p","p","l","i","c","a","t","i","o","n">>))} })

TightSources == { Tight(d) : d \in TightShapes }

(* One method whose parameter list is not of the form
   Type Identifier (',' Type Identifier)*: a comma at the end, at the start,
   doubled, or followed by a type without a name *)
BadParamLists ==
    { <<Str(<<"i","3","2">>), Str(<<"x">>), Str(<<",">>)>>,
      <<Str(<<"i","3","2">>), Str(<<"x">>), Str(<<",">>), Str(<<"f","3","2">>), Str(<<"y","z">>), Str(<<",">>)>>,
      <<Str(<<",">>)>>,
      <<Str(<<",">>), Str(<<"i","3","2">>), Str(<<"x">>)>>,
      <<Str(<<"i","3","2">>), Str(<<"x">>), Str(<<",">>), Str(<<",">>), Str(<<"f","3","2">>), Str(<<"y","z">>)>>,
      <<Str(<<"i","3","2">>), Str(<<"x">>), Str(<<",">>), Str(<<"f","3","2">>)>>,
      <<Str(<<"i","3","2">>), Str(<<"x">>), Str(<<",">>), Str(<<"y","z">>)>> }

ParamListTokens(ps) ==
    <<Str(<<"c","l","a","s","s">>), Str(<<"a">>), Str(<<":">>), Str(<<"A","p","p","l","i","c","a","t","i","o","n">>), Str(<<"{">>), Str(<<"p","u","b","l","i","c">>), Str(<<"v","o","i","d">>), Str(<<"m">>), Str(<<"(">>)>> \o ps
    \o <<Str(<<")">>), Str(<<"{">>), Str(<<"}">>), Str(<<"}">>)>>

BadParamSources == { Spaced(ParamListTokens(ps), v) : ps \in BadParamLists, v \in Variants }

ClassSources ==
    WellFormedSources \cup DeviatingSources \cup OtherBaseSources \cup TopLevelSources
    \cup TightSources \cup BadParamSources

InitClass ==
    /\ LexerInit(ClassSources)
    /\ pc = "parse_start"
    /\ ParserIdle
    /\ NoTwin

SpecClass == InitClass /\ [][NextParse]_vars

FairClass == SpecClass /\ WF_vars(NextParse)

---------------------------------------------------------------------------
(* The expression productions, expressionparser.cpp and valueParsers.cpp.
   A client primes the lexer with one getNextToken, as parse() does
   (parser.cpp:11), and calls parseExpression or parseBinaryExpression. *)

(* static getOperatorPrecedenceMap / getTokenPrecedence,
   expressionparser.cpp:45-69 *)
getTokenPrecedence(o) ==
    CASE o \in {"&&", "||"} -> 5
      [] o \in {"==", "!="} -> 10
      [] o \in {"<", ">", "<=", ">="} -> 15
      [] o \in {"+", "-"} -> 20
      [] o \in {"*", "/"} -> 40
      [] OTHER -> -1

(* The tokens parsePrimaryExpression has a case for, valueParsers.cpp:10-20 *)
isPrimaryToken(token) ==
    token \in {tok_integer_literal, tok_float_literal, tok_true, tok_false,
               tok_char_literal, tok_identifier}

(* The node a leaf parser builds from the lexer's payloads,
   valueParsers.cpp:27-54; b and c stand for boolValue and charValue *)
LeafNode(L, b, c) ==
    CASE getCurrentToken(L) = tok_integer_literal ->
            [kind |-> "Integer", value |-> getIntegerValue(L)]
      [] getCurrentToken(L) = tok_float_literal ->
            [kind |-> "Float", value |-> L.floatValue]
      [] getCurrentToken(L) \in {tok_true, tok_false} ->
            [kind |-> "Bool", value |-> b]
      [] getCurrentToken(L) = tok_char_literal ->
            [kind |-> "Char", value |-> c]
      [] OTHER ->
            [kind |-> "Identifier", name |-> getIdentifierName(L)]

ExprUnchanged == UNCHANGED <<parseTok, classF, methodF, stmtF, dispatched>>

(* return v from parseBinaryExpression: to parseParenExpression line 30, or
   to the client *)
ExprReturn(v) ==
    /\ result' = v
    /\ pc' = IF exprF.inParen /\ v # nullptr THEN "paren_close" ELSE "expr_done"

(* The client primes the lexer and picks the production to call *)
ExprStart ==
    /\ pc = "expr_start"
    /\ \E r \in {getNextToken(source, Lx)} : Fetch(r)
    /\ \E entry \in {"paren_open", "binary_lhs", "rhs_call"} : pc' = entry
    /\ UNCHANGED <<result, exprF>>
    /\ ExprUnchanged

(* parseExpression, expressionparser.cpp:9-16, and parseParenExpression up to
   the call of parseBinaryExpression, expressionparser.cpp:23-30 *)
ParenOpen ==
    /\ pc = "paren_open"
    /\ IF getCurrentToken(Lx) # 40
       THEN /\ NoFetch
            /\ result' = nullptr
            /\ pc' = "expr_done"
            /\ UNCHANGED exprF
       ELSE /\ \E r \in {getNextToken(source, Lx)} : Fetch(r)
            /\ exprF' = [exprF EXCEPT !.inParen = TRUE]
            /\ pc' = "binary_lhs"
            /\ UNCHANGED result
    /\ ExprUnchanged

(* parseBinaryExpression is declared (parser.hpp:17) and called
   (expressionparser.cpp:30) but not defined in the sources: it is the left
   operand by parsePrimaryExpression, then parseBinaryOpRHS(0, lhs).
   parsePrimaryExpression is valueParsers.cpp:7-25 with the leaf parser it
   calls. *)
BinaryLhs ==
    /\ pc = "binary_lhs"
    /\ IF ~isPrimaryToken(getCurrentToken(Lx))
       THEN /\ NoFetch
            /\ result' = nullptr
            /\ pc' = "expr_done"
            /\ UNCHANGED exprF
       ELSE /\ \E b \in BOOLEAN, c \in {0, 97} :
                exprF' = [exprF EXCEPT !.lhs = LeafNode(Lx, b, c), !.exprPrecedence = 0]
            /\ \E r \in {getNextToken(source, Lx)} : Fetch(r)
            /\ pc' = "rhs_loop"
            /\ UNCHANGED result
    /\ ExprUnchanged

(* The values of exprPrecedence a caller of parseBinaryOpRHS passes: zero,
   the precedence of an operator, one above the highest *)
MinPrecedences == {0, 10, 15, 20, 41}

(* A caller of parseBinaryOpRHS (parser.hpp:18) other than
   parseBinaryExpression: the left operand by parsePrimaryExpression,
   valueParsers.cpp:7-25, then parseBinaryOpRHS(minPrecedence, lhs),
   expressionparser.cpp:71 *)
RhsCall ==
    /\ pc = "rhs_call"
    /\ IF ~isPrimaryToken(getCurrentToken(Lx))
       THEN /\ NoFetch
            /\ result' = nullptr
            /\ pc' = "expr_done"
            /\ UNCHANGED exprF
       ELSE /\ \E b \in BOOLEAN, c \in {0, 97}, minPrecedence \in MinPrecedences \ {0} :
                exprF' = [exprF EXCEPT !.lhs = LeafNode(Lx, b, c),
                                       !.exprPrecedence = minPrecedence]
            /\ \E r \in {getNextToken(source, Lx)} : Fetch(r)
            /\ pc' = "rhs_loop"
            /\ UNCHANGED result
    /\ ExprUnchanged

(* expressionparser.cpp:139-142 once op is known: return lhs, or go on to
   consume the operator *)
RhsPrecedence(o) ==
    IF getTokenPrecedence(o) < exprF.exprPrecedence
    THEN ExprReturn(exprF.lhs) /\ UNCHANGED exprF
    ELSE /\ exprF' = [exprF EXCEPT !.op = o]
         /\ pc' = "rhs_consume"
         /\ UNCHANGED result

(* The second character of a two-character operator that has no
   one-character form, expressionparser.cpp:81-96 and 119-134 *)
RhsPair(second, o) ==
    \E r \in {getNextToken(source, Lx)} :
        /\ Fetch(r)
        /\ IF r.ret # second
           THEN ExprReturn(exprF.lhs) /\ UNCHANGED exprF
           ELSE RhsPrecedence(o)

(* '<' and '>', expressionparser.cpp:97-118: with '=' the two-character
   operator, otherwise the one-character operator and ungetCurrentToken() *)
RhsCompare(one, two) ==
    \E r \in {getNextToken(source, Lx)} :
        IF r.ret = 61
        THEN Fetch(r) /\ RhsPrecedence(two)
        ELSE /\ Fetch([r EXCEPT !.lx.currentIndex = ungetCurrentToken(@)])
             /\ RhsPrecedence(one)

(* parseBinaryOpRHS, expressionparser.cpp:72-142: one turn of the loop up to
   the precedence test *)
RhsOperator ==
    /\ pc = "rhs_loop"
    /\ CASE getCurrentToken(Lx) = 43 -> NoFetch /\ RhsPrecedence("+")
         [] getCurrentToken(Lx) = 45 -> NoFetch /\ RhsPrecedence("-")
         [] getCurrentToken(Lx) = 42 -> NoFetch /\ RhsPrecedence("*")
         [] getCurrentToken(Lx) = 47 -> NoFetch /\ RhsPrecedence("/")
         [] getCurrentToken(Lx) = 61 -> RhsPair(61, "==")
         [] getCurrentToken(Lx) = 33 -> RhsPair(61, "!=")
         [] getCurrentToken(Lx) = 60 -> RhsCompare("<", "<=")
         [] getCurrentToken(Lx) = 62 -> RhsCompare(">", ">=")
         [] getCurrentToken(Lx) = 38 -> RhsPair(38, "&&")
         [] getCurrentToken(Lx) = 124 -> RhsPair(124, "||")
         [] OTHER -> NoFetch /\ ExprReturn(exprF.lhs) /\ UNCHANGED exprF
    /\ ExprUnchanged

(* expressionparser.cpp:144-149 up to the leaf parser: consume the operator,
   then the switch of parsePrimaryExpression, valueParsers.cpp:8-24 *)
RhsConsume ==
    /\ pc = "rhs_consume"
    /\ \E r \in {getNextToken(source, Lx)} :
        /\ Fetch(r)
        /\ IF ~isPrimaryToken(getCurrentToken(r.lx))
           THEN ExprReturn(nullptr)
           ELSE pc' = "rhs_leaf" /\ UNCHANGED result
    /\ UNCHANGED exprF
    /\ ExprUnchanged

(* The leaf parser called for the right operand, valueParsers.cpp:27-54; rhs
   is dropped at the end of the loop body, expressionparser.cpp:145-151 *)
RhsLeaf ==
    /\ pc = "rhs_leaf"
    /\ \E b \in BOOLEAN, c \in {0, 97} :
        exprF' = [exprF EXCEPT !.rhs = LeafNode(Lx, b, c)]
    /\ \E r \in {getNextToken(source, Lx)} : Fetch(r)
    /\ pc' = "rhs_loop"
    /\ UNCHANGED result
    /\ ExprUnchanged

(* parseParenExpression after parseBinaryExpression returned a node,
   expressionparser.cpp:35-42 *)
ParenClose ==
    /\ pc = "paren_close"
    /\ IF getCurrentToken(Lx) # 41
       THEN NoFetch /\ result' = nullptr
       ELSE (\E r \in {getNextToken(source, Lx)} : Fetch(r)) /\ UNCHANGED result
    /\ pc' = "expr_done"
    /\ UNCHANGED exprF
    /\ ExprUnchanged

(* Source texts for the expression productions *)
MaxOperators == 2

(* The operators of the precedence table as they are written *)
OperatorText ==
    ( "+" :> Str(<<"+">>) @@ "-" :> Str(<<"-">>) @@ "*" :> Str(<<"*">>) @@
      "/" :> Str(<<"/">>) @@ "<" :> Str(<<"<">>) @@ ">" :> Str(<<">">>) @@
      "<=" :> Str(<<"<", "=">>) @@ ">=" :> Str(<<">", "=">>) @@
      "==" :> Str(<<"=", "=">>) @@ "!=" :> Str(<<"!", "=">>) @@
      "&&" :> Str(<<"&", "&">>) @@ "||" :> Str(<<"|", "|">>) )

(* 1 op 2 op 3 ..., every token followed by one space *)
Chain(ops) ==
    Str(<<"1", " ">>) \o
    Flatten([k \in 1..Len(ops) |-> OperatorText[ops[k]] \o <<32, 49 + k, 32>>])

ChainSources == { Chain(ops) : ops \in SeqsUpTo(DOMAIN OperatorText, MaxOperators) }

(* a, an operator or the first character of one, and a right operand, with
   and without spaces, bare or in parentheses *)
PairSources ==
    { pre \o Str(<<"a", " ">>) \o o \o sep \o operand \o post :
        pre \in {<<>>, Str(<<"(", " ">>)},
        o \in {OperatorText[x] : x \in DOMAIN OperatorText}
               \cup {Str(<<"=">>), Str(<<"!">>), Str(<<"&">>), Str(<<"<", " ", "=">>)},
        sep \in {<<>>, Str(<<" ">>)},
        operand \in {Str(<<"x">>), Str(<<"x", "y">>), Str(<<"2">>), Str(<<"2", "3">>),
                     Str(<<"t", "r", "u", "e">>), Str(<<"1", ".", "5">>)},
        post \in {<<>>, Str(<<" ">>), Str(<<")">>), Str(<<";">>)} }

ExprSources == ChainSources \cup PairSources

InitExpr ==
    /\ LexerInit(ExprSources)
    /\ pc = "expr_start"
    /\ ParserIdle
    /\ NoTwin

NextExpr ==
    \/ ExprStart \/ ParenOpen \/ BinaryLhs \/ RhsCall \/ RhsOperator \/ RhsConsume
    \/ RhsLeaf \/ ParenClose

SpecExpr == InitExpr /\ [][NextExpr]_vars

---------------------------------------------------------------------------
(* What a call of getNextToken meets in the source, stated on the text alone.
   Positions are 0-based cursor values. *)

(* The first position at or after i that holds no white space; Len(s) if none *)
TokStart(s, i) ==
    IF \E k \in i..(Len(s) - 1) : ~isspace(s[k + 1])
    THEN CHOOSE k \in i..(Len(s) - 1) :
            ~isspace(s[k + 1]) /\ \A m \in i..(k - 1) : isspace(s[m + 1])
    ELSE Len(s)

(* The end (exclusive) of the maximal run of characters of class P from j *)
RunEnd(s, j, P(_)) ==
    CHOOSE k \in j..Len(s) :
        /\ \A m \in j..(k - 1) : P(s[m + 1])
        /\ k = Len(s) \/ ~P(s[k + 1])

IsDigitOrDot(c) == isdigit(c) \/ c = 46

Lexeme(s, j, P(_)) == SubSeq(s, j + 1, RunEnd(s, j, P))

DotCount(run) == Cardinality({k \in 1..Len(run) : run[k] = 46})

(* The step is a call of getNextToken whose first non-blank character exists *)
CallAt(j) == op' = "getNextToken" /\ j = TokStart(source, currentIndex) /\ j < Len(source)

(* The decimal digits of a natural number, most significant first; <<>> for 0 *)
RECURSIVE DecimalDigits(_)
DecimalDigits(n) ==
    IF n = 0 THEN <<>> ELSE Append(DecimalDigits(n \div 10), 48 + (n % 10))

RECURSIVE WithoutLeadingZeros(_)
WithoutLeadingZeros(ds) ==
    IF ds # <<>> /\ ds[1] = 48 THEN WithoutLeadingZeros(SubSeq(ds, 2, Len(ds))) ELSE ds

(* The positions of a star-slash after the slash-star that opens at j *)
CommentClose(s, j) ==
    { k \in (j + 2)..(Len(s) - 2) : s[k + 1] = 42 /\ s[k + 2] = 47 }

(* The twelve keywords of the specification with their dedicated tokens *)
DedicatedToken ==
    ( Str(<<"i","3","2">>) :> tok_i32 @@ Str(<<"f","3","2">>) :> tok_f32 @@
      Str(<<"b","o","o","l">>) :> tok_bool @@ Str(<<"c","h","a","r">>) :> tok_char @@
      Str(<<"v","o","i","d">>) :> tok_void @@ Str(<<"t","r","u","e">>) :> tok_true @@
      Str(<<"f","a","l","s","e">>) :> tok_false @@ Str(<<"c","l","a","s","s">>) :> tok_class @@
      Str(<<"i","f">>) :> tok_if @@ Str(<<"e","l","s","e">>) :> tok_else @@
      Str(<<"w","h","i","l","e">>) :> tok_while @@
      Str(<<"p","u","b","l","i","c">>) :> tok_public )

(* The positions of '<' and '>' in the text *)
ComparePositions(s) == { k \in 0..(Len(s) - 1) : s[k + 1] \in {60, 62} }

(* Where the token that follows the only '<' or '>' of the text starts *)
AfterCompare(s) == TokStart(s, (CHOOSE k \in ComparePositions(s) : TRUE) + 1)

(* The token that follows the only '<' or '>' is an identifier or an integer,
   float or boolean literal *)
OperandFollows(s) ==
    /\ Cardinality(ComparePositions(s)) = 1
    /\ AfterCompare(s) < Len(s)
    /\ \/ /\ isalpha(s[AfterCompare(s) + 1])
          /\ Lexeme(s, AfterCompare(s), isalnum) \notin
                 DOMAIN DedicatedToken \ {Str(<<"t","r","u","e">>), Str(<<"f","a","l","s","e">>)}
       \/ /\ IsDigitOrDot(s[AfterCompare(s) + 1])
          /\ DotCount(Lexeme(s, AfterCompare(s), IsDigitOrDot)) <= 1

(* node is the leaf for the token that follows the only '<' or '>' *)
IsOperandAfterCompare(s, node) ==
    IF isalpha(s[AfterCompare(s) + 1])
    THEN IF Lexeme(s, AfterCompare(s), isalnum) \in DOMAIN DedicatedToken
         THEN node.kind = "Bool"
         ELSE node = [kind |-> "Identifier", name |-> Lexeme(s, AfterCompare(s), isalnum)]
    ELSE IF DotCount(Lexeme(s, AfterCompare(s), IsDigitOrDot)) = 1
    THEN node.kind = "Float"
    ELSE /\ node.kind = "Integer"
         /\ node.value >= 0
         /\ DecimalDigits(node.value) =
                WithoutLeadingZeros(Lexeme(s, AfterCompare(s), IsDigitOrDot))

(* The trees the precedence table prescribes for 1 op 2 and 1 op 2 op 3 *)
Operand(k) == [kind |-> "Integer", value |-> k]

BinaryExpr(o, l, r) == [kind |-> "BinaryExpr", op |-> o, lhs |-> l, rhs |-> r]

IsPrecedenceTree(ops, node) ==
    CASE Len(ops) = 1 -> node = BinaryExpr(ops[1], Operand(1), Operand(2))
      [] Len(ops) = 2 /\ getTokenPrecedence(ops[2]) > getTokenPrecedence(ops[1]) ->
            node = BinaryExpr(ops[1], Operand(1), BinaryExpr(ops[2], Operand(2), Operand(3)))
      [] Len(ops) = 2 /\ getTokenPrecedence(ops[2]) < getTokenPrecedence(ops[1]) ->
            node = BinaryExpr(ops[2], BinaryExpr(ops[1], Operand(1), Operand(2)), Operand(3))
      [] OTHER -> node.kind = "BinaryExpr"

(* The number of ';' in the first i characters of s *)
SemicolonsBefore(s, i) == Cardinality({ k \in 1..i : s[k] = 59 })

(* The VarDecl nodes returned so far in the class being parsed *)
VarDeclsReturned(cf, mf) ==
    Len(Flatten([j \in 1..Len(cf.methodImpls) |-> cf.methodImpls[j].body])) + Len(mf.body)

(* The step is the return of a VarDecl node from parseStatement *)
VarDeclReturned == pc = "stmt_skip_test" /\ pc' = "method_body"

(* The operator o is written in s with its first character at position i,
   and no longer operator is *)
WrittenAt(s, i, o) ==
    /\ i >= 1
    /\ i + Len(OperatorText[o]) - 1 <= Len(s)
    /\ SubSeq(s, i, i + Len(OperatorText[o]) - 1) = OperatorText[o]

OperatorAt(s, i, o) ==
    /\ WrittenAt(s, i, o)
    /\ \A o2 \in DOMAIN OperatorText :
            Len(OperatorText[o2]) > Len(OperatorText[o]) => ~WrittenAt(s, i, o2)

(* The first characters of the operators parseBinaryOpRHS peeks behind, with
   the character that completes the two-character operator *)
CompletedBy == (61 :> 61 @@ 33 :> 61 @@ 60 :> 61 @@ 62 :> 61 @@ 38 :> 38 @@ 124 :> 124)

---------------------------------------------------------------------------
(* C1: on every finite source the token loop of main eventually gets tok_eof
   from getNextToken, and a call made with the cursor at the end of the
   input returns tok_eof. *)
C1_TokenStreamEnds ==
    /\ <>(op = "getNextToken" /\ ret = tok_eof)
    /\ [][(pc = "main_call" /\ currentIndex >= Len(source)) => ret' = tok_eof]_vars

(* C3: a lexeme that starts with a letter and is a maximal alphanumeric run
   gives the dedicated token when it is one of the twelve keywords, never
   tok_identifier; any other gives tok_identifier with getIdentifierName()
   equal to the scanned text. *)
C3_KeywordOrIdentifier ==
    [][\A j \in 0..Len(source) :
        (CallAt(j) /\ isalpha(source[j + 1])) =>
            LET lexeme == Lexeme(source, j, isalnum)
            IN  IF lexeme \in DOMAIN DedicatedToken
                THEN ret' = DedicatedToken[lexeme] /\ ret' # tok_identifier
                ELSE ret' = tok_identifier /\ identifierName' = lexeme]_vars

C3_Witness ==
    /\ op = "getNextToken"
    /\ ret = tok_identifier
    /\ identifierName = Str(<<"p","u","b","l","i">>)
    /\ source = Str(<<" ","p","u","b","l","i",";">>)

(* C4: after an identifier or keyword lexeme is scanned the cursor rests
   immediately after the lexeme's last character, whether a character or the
   end of the input follows. *)
C4_CursorAfterLexeme ==
    [][\A j \in 0..Len(source) :
        (CallAt(j) /\ isalpha(source[j + 1])) =>
            currentIndex' = RunEnd(source, j, isalnum)]_vars

(* C5: after a numeric literal is returned for a maximal run of digits with
   at most one '.', the character that follows the run is not consumed: the
   cursor rests on it. *)
C5_CharAfterNumberKept ==
    [][\A j \in 0..Len(source) :
        (/\ CallAt(j)
         /\ IsDigitOrDot(source[j + 1])
         /\ DotCount(Lexeme(source, j, IsDigitOrDot)) <= 1) =>
            /\ ret' \in {tok_integer_literal, tok_float_literal}
            /\ currentIndex' = RunEnd(source, j, IsDigitOrDot)]_vars

(* C6: a digit-only lexeme (here of at most 18 digits, so that its value fits
   64 bits) gives tok_integer_literal and getIntegerValue() is the base-10
   value of the lexeme. *)
C6_IntegerPayload ==
    [][\A j \in 0..Len(source) :
        (/\ CallAt(j)
         /\ isdigit(source[j + 1])
         /\ DotCount(Lexeme(source, j, IsDigitOrDot)) = 0
         /\ Len(Lexeme(source, j, IsDigitOrDot)) <= 18) =>
            /\ ret' = tok_integer_literal
            /\ integerValue' >= 0
            /\ DecimalDigits(integerValue') =
                   WithoutLeadingZeros(Lexeme(source, j, IsDigitOrDot))]_vars

(* C7: a digit-or-dot run with no '.' gives tok_integer_literal, with exactly
   one '.' tok_float_literal; with a second '.' getNextToken returns tok_eof
   and leaves the stored integer and float payloads as they were. *)
C7_NumberClassification ==
    [][\A j \in 0..Len(source) :
        (CallAt(j) /\ IsDigitOrDot(source[j + 1])) =>
            LET dots == DotCount(Lexeme(source, j, IsDigitOrDot))
            IN  /\ dots = 0 => ret' = tok_integer_literal
                /\ dots = 1 => ret' = tok_float_literal
                /\ dots >= 2 => /\ ret' = tok_eof
                                /\ integerValue' = integerValue
                                /\ floatValue' = floatValue]_vars

C7_Witness ==
    /\ op = "getNextToken"
    /\ ret = tok_eof
    /\ source = Str(<<"1", ".", ".", ";">>)
    /\ currentIndex = 3
    /\ integerValue = -7

(* C8: a block comment emits no token whatever its body holds (also a body
   that ends in '*'): the call returns what lexing from just after the first
   closing star-slash returns; only a comment that is never closed gives
   tok_eof. *)
C8_BlockCommentSkipped ==
    [][\A j \in 0..Len(source) :
        (/\ CallAt(j)
         /\ j + 1 < Len(source)
         /\ source[j + 1] = 47
         /\ source[j + 2] = 42) =>
            IF CommentClose(source, j) = {}
            THEN ret' = tok_eof
            ELSE LET k == CHOOSE k \in CommentClose(source, j) :
                              \A m \in CommentClose(source, j) : k <= m
                     after == getNextToken(source, [Lx EXCEPT !.currentIndex = k + 2])
                 IN  ret' = after.ret /\ currentIndex' = after.lx.currentIndex]_vars

(* C9: a '/' followed by neither '/' nor '*' is returned as the token '/',
   and the character after it starts the next token. *)
C9_LoneSlash ==
    [][\A j \in 0..Len(source) :
        (/\ CallAt(j)
         /\ source[j + 1] = 47
         /\ j + 1 < Len(source)
         /\ source[j + 2] \notin {47, 42}) =>
            ret' = 47 /\ currentIndex' = j + 1]_vars

(* C10: after every call of getNextToken, getCurrentToken() is the value the
   call returned, and getCurrentToken does not move the cursor. *)
C10_CurrentTokenIsLastReturned ==
    /\ [](op = "getNextToken" => getCurrentToken(Lx) = ret)
    /\ [][op' = "getCurrentToken" =>
            (ret' = currentToken /\ currentIndex' = currentIndex)]_vars

(* C11: two fresh Lexer objects over the same source return the same tokens
   with the same identifier and integer payloads, call for call, whenever the
   second is constructed and whatever their uninitialised members hold. *)
C11_SameTokenSequence ==
    \A k \in 1..MaxCalls :
        (k <= Len(tokensA) /\ k <= Len(tokensB)) => tokensA[k] = tokensB[k]

C11_Witness ==
    /\ Len(tokensA) = MaxCalls
    /\ Len(tokensB) = MaxCalls
    /\ tokensB[1].tok = tok_identifier
    /\ tokensB[2].tok = tok_integer_literal
    /\ tokensB[3].tok = tok_eof
    /\ floatValue # lexerB.floatValue

(* C12: in parseBinaryOpRHS a '<' or '>' directly followed by '=' is the
   operator <= or >=; followed by another token it is < or >, and the right
   operand then read is the complete token that follows the operator in the
   source, whatever its length. *)
C12_CompareOperator ==
    /\ [][(/\ pc = "rhs_loop"
           /\ getCurrentToken(Lx) \in {60, 62}
           /\ currentIndex >= 1
           /\ source[currentIndex] = getCurrentToken(Lx)) =>
              IF currentIndex < Len(source) /\ source[currentIndex + 1] = 61
              THEN exprF'.op = (IF getCurrentToken(Lx) = 60 THEN "<=" ELSE ">=")
              ELSE TokStart(source, currentIndex) < Len(source)
                   /\ source[TokStart(source, currentIndex) + 1] # 61
                   => exprF'.op = (IF getCurrentToken(Lx) = 60 THEN "<" ELSE ">")]_vars
    /\ [][(pc = "rhs_consume" /\ exprF.op \in {"<", ">"} /\ OperandFollows(source)) =>
              pc' = "rhs_leaf"]_vars
    /\ [][(pc = "rhs_leaf" /\ exprF.op \in {"<", ">"} /\ OperandFollows(source)) =>
              IsOperandAfterCompare(source, exprF'.rhs)]_vars

(* C13: primary expressions separated by binary operators parse to a
   BinaryExpr tree in which the operator of higher precedence binds tighter
   than its neighbour of lower precedence (1 + 2 * 3 is 1 + (2 * 3), 1 * 2 + 3
   is (1 * 2) + 3); with at least one operator the result is never just the
   first operand. *)
C13_PrecedenceTree ==
    \A ops \in SeqsUpTo(DOMAIN OperatorText, MaxOperators) :
        (/\ pc = "expr_done"
         /\ source = Chain(ops)
         /\ Len(ops) >= 1
         /\ exprF.lhs = Operand(1)) =>
            IsPrecedenceTree(ops, result)

(* C14: for a well-formed class definition whose tokens are separated by
   white space, parseClassDefinition returns a Class node with the class
   name, the blueprint list ["Application"], the methods in source order with
   their names, their (type, name) parameters in source order, and one
   VarDecl per declaration in source order with the declared type and name. *)
C14_WellFormedClass ==
    /\ source \in WellFormedSources => result # nullptr
    /\ (source \in WellFormedSources /\ pc \in {"parse_advance", "parse_done"}) =>
            \A d \in Shapes : source = WellFormed(d) => result = ClassNode(d)

C14_Witness ==
    /\ source \in WellFormedSources
    /\ pc = "parse_advance"
    /\ result.kind = "Class"
    /\ Len(result.methodImpls) = MaxMethods
    /\ Len(result.methodImpls[1].params) = MaxParams
    /\ Len(result.methodImpls[2].body) = MaxDecls
    /\ result.methodImpls[2].body[1].type # result.methodImpls[2].body[2].type
    /\ result.methodImpls[1].name # result.methodImpls[2].name

(* C15: parseClassDefinition returns no Class node when the token stream
   deviates from the class grammar at any point: a missing class name, ':',
   base name or '{', a method that fails to parse, or a class body that is
   not closed by '}'. *)
C15_DeviationRejected == source \in DeviatingSources => result.kind # "Class"

(* C16: parseClassDefinition returns a Class node only if the token after
   ':' is the identifier Application; any other identifier and any
   non-identifier token as base name give an absent result. *)
C16_BaseIsApplication == source \in OtherBaseSources => result.kind # "Class"

(* C17: once a call of parseClassDefinition made by the top-level loop has
   returned an absent result, parse() dispatches no further token to any
   production. *)
C17_StopsAtFirstFatalError ==
    [][(pc = "parse_loop" /\ result = nullptr) =>
            (pc' \notin {"parse_leaf", "class_name"} /\ dispatched' = dispatched)]_vars

(* C18: the top-level loop of parse() dispatches every top-level token
   exactly once: a source of k literals or identifiers enters a leaf parser
   k times, a source of k class definitions enters parseClassDefinition k
   times, and nothing else is dispatched. *)
C18_EveryTopLevelTokenDispatched ==
    pc = "parse_done" =>
        /\ \A ts \in SeqsUpTo(LeafWords, MaxTopLevel) :
                source = LeafRun(ts) => dispatched = Len(ts)
        /\ \A d \in DeviationShapes, k \in 1..MaxTopLevel :
                source = ClassRun(d, k) => dispatched = k

(* C19: parseStatement returns, with a VarDecl node or an absent result,
   after finitely many token fetches for every finite source, also when the
   ';' that ends the declaration never appears before the end of the
   input. *)
C19_StatementReturns ==
    (pc = "stmt_name") ~>
        (pc \notin {"stmt_name", "stmt_eq", "stmt_skip_test", "stmt_skip_fetch"})

(* C20: every VarDecl node returned by parseStatement carries the declared
   type, the declared name and the initializer Integer 0; when it returns,
   the lexer's current token is the ';' that ends that same declaration; a
   method body of n declarations yields n VarDecl nodes. *)
C20_VarDeclPerDeclaration ==
    /\ [][VarDeclReturned =>
            \A d \in Shapes :
                source \in {WellFormed(d), Tight(d)} =>
                    /\ result' = VarDeclNode(d.v, Len(classF.methodImpls) + 1,
                                             Len(methodF.body) + 1)
                    /\ getCurrentToken(Lx) = 59
                    /\ source[currentIndex] = 59
                    /\ SemicolonsBefore(source, currentIndex)
                            = VarDeclsReturned(classF', methodF')]_vars
    /\ [][(pc = "class_close") =>
            \A d \in Shapes :
                source \in {WellFormed(d), Tight(d)} =>
                    \A j \in 1..Len(d.methods) :
                        /\ j <= Len(result'.methodImpls)
                        /\ Len(result'.methodImpls[j].body) = d.methods[j].decls]_vars

(* C21: parseMethodImplementation accepts a parameter list only if it is
   empty or of the form Type Identifier (',' Type Identifier)*: a list with
   a trailing comma is rejected with an absent result, and the returned
   MethodImpl has as many parameters as the source has pairs. *)
C21_ParameterList ==
    /\ source \in BadParamSources => result.kind \notin {"MethodImpl", "Class"}
    /\ (result.kind = "MethodImpl" /\ source \in WellFormedSources) =>
            \A d \in Shapes :
                source = WellFormed(d) =>
                    Len(result.params) = d.methods[Len(classF.methodImpls)].params

(* C22: when parseBinaryOpRHS stops because the operator it sees has a
   precedence below minPrecedence, it returns the left-hand side it was
   given and leaves the lexer as it found it at the start of that loop
   iteration, cursor and current token, for one-character and two-character
   operators alike. *)
C22_LowPrecedenceLeavesLexer ==
    [][\A o \in DOMAIN OperatorText :
        (/\ pc = "rhs_loop"
         /\ currentIndex >= 1
         /\ source[currentIndex] = getCurrentToken(Lx)
         /\ OperatorAt(source, currentIndex, o)
         /\ getTokenPrecedence(o) < exprF.exprPrecedence) =>
            /\ pc' = "expr_done"
            /\ result' = exprF.lhs
            /\ currentIndex' = currentIndex
            /\ currentToken' = currentToken]_vars

(* C23: when parseBinaryOpRHS peeks one token past a first operator
   character ('=', '!', '<', '>', '&', '|') and the peeked token does not
   complete a two-character operator, the peeked input is pushed back: the
   next fetch starts at or before the token that follows the operator
   character, which is not lost to the caller. *)
C23_PeekedTokenPushedBack ==
    [][(/\ pc = "rhs_loop"
        /\ getCurrentToken(Lx) \in DOMAIN CompletedBy
        /\ currentIndex >= 1
        /\ source[currentIndex] = getCurrentToken(Lx)
        /\ TokStart(source, currentIndex) < Len(source)
        /\ source[TokStart(source, currentIndex) + 1] # CompletedBy[getCurrentToken(Lx)]) =>
            /\ currentIndex' >= currentIndex
            /\ currentIndex' <= TokStart(source, currentIndex)]_vars

(* C24: when getNextToken() has returned tok_true, getBoolValue() returns
   true and parseBoolValue builds the Bool literal true; when it has
   returned tok_false, they give false. *)
C24_BoolValue ==
    [][(pc = "parse_leaf" /\ parseTok \in {tok_true, tok_false}) =>
            result' = [kind |-> "Bool", value |-> (parseTok = tok_true)]]_vars

(* C25: in every state reached by calls of getNextToken() on a fresh lexer,
   made by parse() or by any other caller, the cursor satisfies
   0 <= currentIndex <= length(source): ungetCurrentToken() is never run at
   cursor 0 and no read goes past the end of the source. *)
C25_CursorInBounds == currentIndex >= 0 /\ currentIndex <= Len(source)

C25_Witness ==
    /\ op = "getNextToken"
    /\ ret = tok_identifier
    /\ Len(source) = 1
    /\ currentIndex = 0

(* C26: every MethodImpl node returned by parseMethodImplementation has
   return type VOID and an empty access-modifier list: the public modifier
   the method starts with is checked but not recorded in the node. *)
C26_VoidAndNoModifiers ==
    /\ result.kind = "MethodImpl" =>
            result.returnType = "VOID" /\ result.accessModifiers = <<>>
    /\ \A j \in 1..Len(classF.methodImpls) :
            /\ classF.methodImpls[j].returnType = "VOID"
            /\ classF.methodImpls[j].accessModifiers = <<>>
    /\ pc = "method_end" => methodF.accessModifier = "PUBLIC"

C26_Witness ==
    /\ pc = "class_body"
    /\ result.kind = "MethodImpl"
    /\ Len(classF.methodImpls) = MaxMethods
    /\ result = classF.methodImpls[MaxMethods]
    /\ Len(result.params) = MaxParams

(* C2: Parser::parse() terminates on every finite source text, well-formed
   or malformed: its loop reaches tok_eof and exits. *)
C2_ParseTerminates == <>(pc = "parse_done")

====
